---- MODULE Spec2Model ----
(***************************************************************************)
(* Team / membership authorization core of the express backend             *)
(* (src/express_backend/src/services/teams.js) over the legacy schema the  *)
(* service's SQL addresses (teams.archived_at, team_members.role /         *)
(* removed_at with PRIMARY KEY (team_id, user_id), role_assignments).      *)
(*                                                                         *)
(* Every service function is an async handler.  A handler runs from one    *)
(* await to the next without yielding, and every await is one SQL          *)
(* statement, which the store executes atomically.  So a handler is a      *)
(* sequence of steps, one per statement, and the steps of concurrent       *)
(* requests interleave.  proc[p] is request slot p: which function runs,   *)
(* its arguments, the statement it is about to issue (pc) and, once it     *)
(* has finished, what reached the caller (res).                            *)
(*                                                                         *)
(* The register endpoint (services/auth.js) and the grant-admin endpoint   *)
(* (controllers/bootstrap.js) are modelled the same way over the users     *)
(* table; reg[r] is registration request r.                                *)
(*                                                                         *)
(* Timestamps are abstracted: a soft-delete column is a flag, created_at   *)
(* is the position of the row in its table.  A generated UUID is the       *)
(* position the row takes in its table.                                    *)
(***************************************************************************)
EXTENDS Integers, Sequences, FiniteSets, TLC

\* ------------------------------------------------------------------ bounds
\* Rows the teams table may hold.
MaxTeams == 2
\* Rows the teams table may hold in the sequential specification of the team
\* and membership operations, whose requests range over every argument shape.
MaxSeqTeams == 1
\* Rows the role_assignments table may hold.
MaxAssignments == 2
\* Requests that may be in flight together in the concurrent specification.
NumConcProcs == 2

\* ------------------------------------------------------------------ values
\* A JavaScript undefined / missing argument.
NoValue == "<undefined>"
\* A missing team id, and a missing assignment id.
NoTeam == 0
NoAssignment == 0
\* SQL NULL in a text column.
Null == "<null>"
\* A truthy value that is not a string (a number, an array).
NotAString == "<number>"
\* A team name that is absent: names are sequences of characters.
NoName == <<"<undefined>">>

\* The ids of the users rows the team operations refer to (bootstrap.sql).
Users == {"u1", "u2"}
\* A well-formed user id that no users row carries.
GhostUser == "u9"

\* A list of accepted role names that has a fourth name.
AllowedRolesWithOwner == {"member", "manager", "admin", "owner"}

\* The role names the service accepts (teams.js, the includes() lists).
AllowedRoles == {"member", "manager", "admin"}

\* String.prototype.toLowerCase on the strings that occur as inputs.
ToLowerCase(s) ==
  CASE s = "Admin" -> "admin"
    [] s = "ADMIN" -> "admin"
    [] s = "Manager" -> "manager"
    [] s = "MEMBER" -> "member"
    [] s = "Owner" -> "owner"
    [] OTHER -> s

\* typeof x === 'string'
IsString(s) == s # NoValue /\ s # NotAString

\* JavaScript truthiness of an argument that is a string, a number or missing.
Truthy(s) == s # NoValue /\ s # ""

\* Characters String.prototype.trim removes.
IsSpace(c) == c = " "

RECURSIVE TrimStart(_)
TrimStart(s) ==
  IF s = <<>> THEN <<>>
  ELSE IF IsSpace(Head(s)) THEN TrimStart(Tail(s)) ELSE s

RECURSIVE TrimEnd(_)
TrimEnd(s) ==
  IF s = <<>> THEN <<>>
  ELSE IF IsSpace(s[Len(s)]) THEN TrimEnd(SubSeq(s, 1, Len(s) - 1)) ELSE s

\* A trim that removes nothing.
Untrimmed(s) == s

\* String.prototype.trim on a name given as its characters.
Trim(s) == TrimEnd(TrimStart(s))

\* String.prototype.toLowerCase, character by character, on the letters that
\* occur in e-mail inputs.
LowerChar(c) ==
  CASE c = "A" -> "a"
    [] c = "B" -> "b"
    [] c = "X" -> "x"
    [] OTHER -> c

LowerChars(s) == [i \in DOMAIN s |-> LowerChar(s[i])]

\* gen_random_uuid() of a users row: the id of the row at position n.
NewUserId(n) == <<"u1", "u2", "u3", "u4", "u5">>[n]

\* ------------------------------------------------------------------ state
VARIABLES teams, team_members, role_assignments, roles, proc, users, reg

vars == <<teams, team_members, role_assignments, roles, proc, users, reg>>

\* The tables the team and membership operations write.
store == <<teams, team_members, role_assignments, roles>>

\* A decoded token: req.user.  present = FALSE is an absent identity.
NoActor == [present |-> FALSE, sub |-> NoValue, role |-> NoValue]
Actor(sub, role) == [present |-> TRUE, sub |-> sub, role |-> role]

\* An idle request slot.
Idle ==
  [op |-> "idle", pc |-> "idle", actor |-> NoActor, teamId |-> NoTeam,
   userId |-> NoValue, role |-> NoValue, name |-> NoName,
   description |-> NoValue, assignmentId |-> NoAssignment,
   email |-> NoName, tx |-> FALSE, err |-> "none", res |-> "none"]

\* err.status || 500 (controllers/teams.js, controllers/auth.js): the HTTP
\* status of an outcome.
StatusOf(res) ==
  CASE res = "ok" -> 200
    [] res = "created" -> 201
    [] res = "conflict" -> 409
    [] res = "validation" -> 400
    [] res = "unauthorized" -> 401
    [] res = "forbidden" -> 403
    [] res = "not_found" -> 404
    [] OTHER -> 500

\* --------------------------------------------------------- identity resolver
\* The admin test without toLowerCase: user.role === 'admin'.
IsGlobalAdminCaseSensitive(user) == user.present /\ user.role = "admin"

\* user && user.role && typeof user.role === 'string'
\*   && user.role.toLowerCase() === 'admin'
IsGlobalAdmin(user) ==
  /\ user.present
  /\ Truthy(user.role)
  /\ IsString(user.role)
  /\ ToLowerCase(user.role) = "admin"

\* actor && actor.role && actor.role.toLowerCase() === 'admin': the member and
\* role operations leave out the typeof test, so a truthy role that is not a
\* string has no toLowerCase and the expression throws a TypeError.
IsGlobalAdminUnguarded(actor) ==
  IF actor.present /\ Truthy(actor.role) /\ ~IsString(actor.role) THEN "throws"
  ELSE IF IsGlobalAdmin(actor) THEN "yes" ELSE "no"

\* ------------------------------------------------------------ store queries
\* team_members without its primary key: no insert ever meets an existing row.
NoPrimaryKey(tm, teamId, userId) == FALSE

\* PRIMARY KEY (team_id, user_id) of team_members: a row with this key exists,
\* soft-deleted or not.
MemberKeyExists(tm, teamId, userId) ==
  \E i \in DOMAIN tm : tm[i].team_id = teamId /\ tm[i].user_id = userId

\* The membership filter without "AND removed_at IS NULL".
AllMemberRows(tm, teamId, userId) ==
  {i \in DOMAIN tm : tm[i].team_id = teamId /\ tm[i].user_id = userId}

\* WHERE team_id = $1 AND user_id = $2 AND removed_at IS NULL
ActiveMemberRows(tm, teamId, userId) ==
  {i \in DOMAIN tm :
     tm[i].team_id = teamId /\ tm[i].user_id = userId /\ ~tm[i].removed}

\* WHERE team_id = $1 AND user_id = $2 AND revoked_at IS NULL
ActiveAssignmentRows(ra, teamId, userId) ==
  {i \in DOMAIN ra :
     ra[i].team_id = teamId /\ ra[i].user_id = userId /\ ~ra[i].revoked}

\* role === 'manager' || role === 'admin', after (role || '').toLowerCase()
IsManagerRole(role) ==
  LET r == ToLowerCase(role) IN r = "manager" \/ r = "admin"

\* The first query of isTeamManagerOrAdmin: what "SELECT role ... LIMIT 1" may
\* decide.  LIMIT 1 without ORDER BY returns any one matching row.
MemberQueryOutcomes(tm, teamId, userId) ==
  IF ActiveMemberRows(tm, teamId, userId) = {} THEN {FALSE}
  ELSE {IsManagerRole(tm[i].role) : i \in ActiveMemberRows(tm, teamId, userId)}

\* Its second query, on role_assignments.
AssignmentQueryOutcomes(ra, teamId, userId) ==
  IF ActiveAssignmentRows(ra, teamId, userId) = {} THEN {FALSE}
  ELSE {IsManagerRole(ra[i].role_name) :
          i \in ActiveAssignmentRows(ra, teamId, userId)}

\* isTeamManagerOrAdmin(userId, teamId) evaluated against one store state: the
\* set of values it may return.
isTeamManagerOrAdmin(userId, teamId) ==
  IF ~Truthy(userId) \/ teamId = NoTeam THEN {FALSE}
  ELSE {a \/ b : a \in MemberQueryOutcomes(team_members, teamId, userId),
                 b \in AssignmentQueryOutcomes(role_assignments, teamId, userId)}

\* REFERENCES teams(id) / REFERENCES users(id) of a row to insert.
ForeignKeysHold(tt, teamId, userId) ==
  teamId \in DOMAIN tt /\ userId \in Users

\* The insert without its ON CONFLICT clause taking effect: always a new row.
InsertMemberRow(tm, teamId, userId, role) ==
  Append(tm, [team_id |-> teamId, user_id |-> userId, role |-> role,
              removed |-> FALSE])

\* INSERT INTO team_members ... ON CONFLICT (team_id, user_id)
\*   DO UPDATE SET removed_at = NULL, role = EXCLUDED.role
UpsertMember(tm, teamId, userId, role) ==
  IF MemberKeyExists(tm, teamId, userId)
  THEN [i \in DOMAIN tm |->
          IF tm[i].team_id = teamId /\ tm[i].user_id = userId
          THEN [tm[i] EXCEPT !.removed = FALSE, !.role = role]
          ELSE tm[i]]
  ELSE Append(tm, [team_id |-> teamId, user_id |-> userId, role |-> role,
                   removed |-> FALSE])

\* removeMember as a DELETE FROM team_members: the active row of the pair is
\* gone from the table.
HardDeleteMember(tm, teamId, userId) ==
  SelectSeq(tm, LAMBDA r : ~(r.team_id = teamId /\ r.user_id = userId
                              /\ ~r.removed))

\* The soft-delete without "AND user_id = $2": every active row of the team.
SoftDeleteTeamMembers(tm, teamId, userId) ==
  [i \in DOMAIN tm |->
     IF tm[i].team_id = teamId /\ ~tm[i].removed
     THEN [tm[i] EXCEPT !.removed = TRUE] ELSE tm[i]]

\* UPDATE team_members SET removed_at = NOW() WHERE ... AND removed_at IS NULL
SoftDeleteMember(tm, teamId, userId) ==
  [i \in DOMAIN tm |->
     IF i \in ActiveMemberRows(tm, teamId, userId)
     THEN [tm[i] EXCEPT !.removed = TRUE] ELSE tm[i]]

\* UPDATE team_members SET role = $3 WHERE ... AND removed_at IS NULL
UpdateMemberRole(tm, teamId, userId, role) ==
  [i \in DOMAIN tm |->
     IF i \in ActiveMemberRows(tm, teamId, userId)
     THEN [tm[i] EXCEPT !.role = role] ELSE tm[i]]

\* The insert's error were the table's primary key team_id alone: any row of
\* the team conflicts.
InsertMemberErrorTeamKey(tm, tt, teamId, userId) ==
  IF \E i \in DOMAIN tm : tm[i].team_id = teamId THEN "unique_violation"
  ELSE IF teamId \notin DOMAIN tt \/ userId \notin Users THEN "fk_violation"
  ELSE "none"

\* A plain INSERT INTO team_members: the error it raises, if any.
InsertMemberError(tm, tt, teamId, userId) ==
  IF MemberKeyExists(tm, teamId, userId) THEN "unique_violation"
  ELSE IF ~ForeignKeysHold(tt, teamId, userId) THEN "fk_violation"
  ELSE "none"

\* ------------------------------------------------------------- request slots
Request(op, actor, teamId, userId, role, name, description, assignmentId) ==
  [Idle EXCEPT !.op = op, !.pc = "start", !.actor = actor, !.teamId = teamId,
               !.userId = userId, !.role = role, !.name = name,
               !.description = description, !.assignmentId = assignmentId,
               !.res = "pending"]

\* The handler returned or threw: res reaches the caller.
Done(req, res) == [req EXCEPT !.pc = "done", !.res = res]

\* const canManage = isAdmin || (await isTeamManagerOrAdmin(actor?.sub, teamId))
\* up to the first statement: an admin goes on to the write, anybody else to
\* the first authority query (or is refused at once without a user id).
Authorize(req, admin) ==
  CASE admin = "throws" -> Done(req, "type_error")
    [] admin = "yes" -> [req EXCEPT !.pc = "write"]
    [] OTHER -> IF ~Truthy(req.actor.sub) \/ req.teamId = NoTeam
                THEN Done(req, "forbidden")
                ELSE [req EXCEPT !.pc = "q1"]

\* isTeamManagerOrAdmin, first statement (teams.js 17-26).
AuthMemberQuery(p) ==
  /\ proc[p].pc = "q1"
  /\ \E granted \in MemberQueryOutcomes(team_members, proc[p].teamId,
                                         proc[p].actor.sub) :
       proc' = [proc EXCEPT ![p].pc = IF granted THEN "write" ELSE "q2"]
  /\ UNCHANGED store
  /\ UNCHANGED <<users, reg>>

\* isTeamManagerOrAdmin, second statement (teams.js 28-39), and the
\* if (!canManage) throw 403 of the caller.
AuthAssignmentQuery(p) ==
  /\ proc[p].pc = "q2"
  /\ \E granted \in AssignmentQueryOutcomes(role_assignments, proc[p].teamId,
                                             proc[p].actor.sub) :
       proc' = [proc EXCEPT ![p] = IF granted THEN [@ EXCEPT !.pc = "write"]
                                   ELSE Done(@, "forbidden")]
  /\ UNCHANGED store
  /\ UNCHANGED <<users, reg>>

\* The response is sent; the slot takes the next request.
Respond(p) ==
  /\ proc[p].pc = "done"
  /\ proc' = [proc EXCEPT ![p] = Idle]
  /\ UNCHANGED store
  /\ UNCHANGED <<users, reg>>

\* ------------------------------------------------------------- createTeam
\* !name || typeof name !== 'string' || name.trim().length < 2, negated.
NameIsValid(name) == name # NoName /\ Len(Trim(name)) >= 2

\* description || null
DescriptionOrNull(description) ==
  IF Truthy(description) /\ IsString(description) THEN description ELSE Null

\* Requests that are inside the createTeam transaction.
OpenTransactions == {q \in DOMAIN proc : proc[q].op = "createTeam" /\
                       proc[q].pc \in {"begin", "insert_team", "insert_member",
                                       "commit", "rollback"}}

\* createTeam's checks without the "if (!isAdmin)" block.
CreateTeamRejectionNoRoleCheck(name, user) ==
  IF ~user.present THEN "unauthorized"
  ELSE IF ~NameIsValid(name) THEN "validation"
  ELSE "none"

\* The checks createTeam makes before it touches the store (teams.js 73-88):
\* the error it throws, or "none".
CreateTeamRejection(name, user) ==
  IF ~user.present THEN "unauthorized"
  ELSE IF ~IsGlobalAdmin(user) THEN "forbidden"
  ELSE IF ~NameIsValid(name) THEN "validation"
  ELSE "none"

\* createTeam up to pool.connect() (teams.js 71-90).
CallCreateTeam(p, name, description, user) ==
  /\ proc[p] = Idle
  /\ LET req == Request("createTeam", user, NoTeam, NoValue, NoValue, name,
                        description, NoAssignment)
         rec == IF CreateTeamRejection(name, user) # "none"
                THEN Done(req, CreateTeamRejection(name, user))
                ELSE [req EXCEPT !.pc = "begin"]
     IN /\ rec.pc = "begin" =>
             Len(teams) + Cardinality(OpenTransactions) < MaxTeams
        /\ proc' = [proc EXCEPT ![p] = rec]
  /\ UNCHANGED store
  /\ UNCHANGED <<users, reg>>

\* A BEGIN that opens no transaction: every statement commits by itself.
BeginSkipped(tx) == tx

\* client.query('BEGIN'): the statements that follow on this client belong to
\* one transaction, invisible to every other client until COMMIT.
Begin(tx) == TRUE

\* A statement of the transaction failed: control goes to the catch block.
Caught(req, err) == [req EXCEPT !.pc = "rollback", !.err = err]

TxBegin(p) ==
  /\ proc[p].op = "createTeam" /\ proc[p].pc = "begin"
  /\ \E fails \in BOOLEAN :
       proc' = [proc EXCEPT ![p] =
                  IF fails THEN Caught(@, "storage_error")
                  ELSE [@ EXCEPT !.pc = "insert_team", !.tx = Begin(@)]]
  /\ UNCHANGED store
  /\ UNCHANGED <<users, reg>>

\* The row INSERT INTO teams (name, description) VALUES ($1, $2) adds.
NewTeamRow(req) ==
  [name |-> Trim(req.name), description |-> DescriptionOrNull(req.description),
   archived |-> FALSE]

\* The creator inserted at the lowest tier.
CreatorRoleMember == "member"

\* The role of the creator's membership row (teams.js 108).
CreatorRole == "manager"

\* INSERT INTO teams ... RETURNING (teams.js 94-100).  Inside a transaction the
\* row stays with the client; outside one the statement commits by itself.
TxInsertTeam(p) ==
  /\ proc[p].op = "createTeam" /\ proc[p].pc = "insert_team"
  /\ \E fails \in BOOLEAN :
       IF fails
       THEN /\ proc' = [proc EXCEPT ![p] = Caught(@, "storage_error")]
            /\ UNCHANGED teams
       ELSE IF proc[p].tx
       THEN /\ proc' = [proc EXCEPT ![p].pc = "insert_member"]
            /\ UNCHANGED teams
       ELSE /\ teams' = Append(teams, NewTeamRow(proc[p]))
            /\ proc' = [proc EXCEPT ![p].pc = "insert_member",
                                    ![p].teamId = Len(teams) + 1]
  /\ UNCHANGED <<team_members, role_assignments, roles>>
  /\ UNCHANGED <<users, reg>>

\* The error of the creator's INSERT INTO team_members: user_id is NOT NULL and
\* REFERENCES users(id); the team row is the transaction's own.
CreatorInsertError(sub) ==
  IF ~Truthy(sub) THEN "not_null_violation"
  ELSE IF sub \notin Users THEN "fk_violation"
  ELSE "none"

\* INSERT INTO team_members ... ON CONFLICT ... (teams.js 103-109).
TxInsertMember(p) ==
  /\ proc[p].op = "createTeam" /\ proc[p].pc = "insert_member"
  /\ \E fails \in BOOLEAN :
       LET err == IF fails THEN "storage_error"
                  ELSE CreatorInsertError(proc[p].actor.sub)
       IN IF err # "none"
          THEN /\ proc' = [proc EXCEPT ![p] = Caught(@, err)]
               /\ UNCHANGED team_members
          ELSE /\ proc' = [proc EXCEPT ![p].pc = "commit"]
               /\ IF proc[p].tx THEN UNCHANGED team_members
                  ELSE team_members' = UpsertMember(team_members, proc[p].teamId,
                                                    proc[p].actor.sub, CreatorRole)
  /\ UNCHANGED <<teams, role_assignments, roles>>
  /\ UNCHANGED <<users, reg>>

\* client.query('COMMIT'); return team (teams.js 111-112): the transaction's
\* rows become visible together.
TxCommit(p) ==
  /\ proc[p].op = "createTeam" /\ proc[p].pc = "commit"
  /\ \E fails \in BOOLEAN :
       IF fails
       THEN /\ proc' = [proc EXCEPT ![p] = Caught(@, "storage_error")]
            /\ UNCHANGED <<teams, team_members>>
       ELSE IF proc[p].tx
       THEN /\ teams' = Append(teams, NewTeamRow(proc[p]))
            /\ team_members' = UpsertMember(team_members, Len(teams) + 1,
                                            proc[p].actor.sub, CreatorRole)
            /\ proc' = [proc EXCEPT ![p] =
                          Done([@ EXCEPT !.teamId = Len(teams) + 1, !.tx = FALSE],
                               "ok")]
       ELSE /\ proc' = [proc EXCEPT ![p] = Done(@, "ok")]
            /\ UNCHANGED <<teams, team_members>>
  /\ UNCHANGED <<role_assignments, roles>>
  /\ UNCHANGED <<users, reg>>

\* What reaches the caller of createTeam from its catch block (teams.js
\* 113-115): "await client.query('ROLLBACK'); throw err".  A ROLLBACK that
\* rejects throws out of the catch block before "throw err" runs.
RollbackOutcome(err, rollbackFails) ==
  IF rollbackFails THEN "rollback_error" ELSE err

\* catch (err) { await client.query('ROLLBACK'); throw err } finally release.
TxRollback(p) ==
  /\ proc[p].op = "createTeam" /\ proc[p].pc = "rollback"
  /\ \E fails \in BOOLEAN :
       proc' = [proc EXCEPT ![p] =
                  Done([@ EXCEPT !.tx = FALSE], RollbackOutcome(@.err, fails))]
  /\ UNCHANGED store
  /\ UNCHANGED <<users, reg>>

\* ----------------------------------------------------- team lifecycle reads
\* The team filter without "AND archived_at IS NULL".
TeamExists(tt, teamId) == teamId \in DOMAIN tt

\* WHERE id = $1 AND archived_at IS NULL
TeamIsActive(tt, teamId) == teamId \in DOMAIN tt /\ ~tt[teamId].archived

\* n copies of team id t: the rows a join yields for a team matched n times.
RECURSIVE Repeat(_, _)
Repeat(t, n) == IF n = 0 THEN <<>> ELSE <<t>> \o Repeat(t, n - 1)

\* The rows of "FROM teams t JOIN team_members m ON m.team_id = t.id WHERE
\* <matches> AND t.archived_at IS NULL ORDER BY t.created_at DESC" over the
\* teams t, t - 1, ..., 1: one row per matching membership row, matches[t] of
\* them for team t.
RECURSIVE JoinedTeamRows(_, _)
JoinedTeamRows(t, matches) ==
  IF t = 0 THEN <<>>
  ELSE (IF teams[t].archived THEN <<>> ELSE Repeat(t, matches[t]))
         \o JoinedTeamRows(t - 1, matches)

\* The listing whose join leaves out "m.removed_at IS NULL".
ListedTeamRowsOfAnyRow(user) ==
  IF ~user.present THEN <<>>
  ELSE IF IsGlobalAdmin(user)
  THEN JoinedTeamRows(Len(teams), [t \in DOMAIN teams |-> 1])
  ELSE JoinedTeamRows(Len(teams),
         [t \in DOMAIN teams |->
            Cardinality({i \in DOMAIN team_members :
                           /\ team_members[i].team_id = t
                           /\ team_members[i].user_id = user.sub})])

\* listTeamsForUser (teams.js 43-68): the team ids of the rows it returns, in
\* the order it returns them.  The admin's query has no join.
ListedTeamRows(user) ==
  IF ~user.present THEN <<>>
  ELSE IF IsGlobalAdmin(user)
  THEN JoinedTeamRows(Len(teams), [t \in DOMAIN teams |-> 1])
  ELSE JoinedTeamRows(Len(teams),
         [t \in DOMAIN teams |->
            Cardinality(ActiveMemberRows(team_members, t, user.sub))])

\* The teams listTeamsForUser returns.
ListedTeams(user) ==
  {ListedTeamRows(user)[i] : i \in DOMAIN ListedTeamRows(user)}

\* listTeamsForUser is one statement and throws nothing of its own.
CallListTeams(p, user) ==
  /\ proc[p] = Idle
  /\ proc' = [proc EXCEPT ![p] =
                Done(Request("listTeamsForUser", user, NoTeam, NoValue, NoValue,
                             NoName, NoValue, NoAssignment), "ok")]
  /\ UNCHANGED store
  /\ UNCHANGED <<users, reg>>

\* getTeamById up to its first statement (teams.js 122-130).
CallGetTeam(p, teamId, user) ==
  /\ proc[p] = Idle
  /\ LET req == Request("getTeamById", user, teamId, NoValue, NoValue, NoName,
                        NoValue, NoAssignment)
     IN proc' = [proc EXCEPT ![p] =
                   IF teamId = NoTeam THEN Done(req, "validation")
                   ELSE [req EXCEPT !.pc = "team"]]
  /\ UNCHANGED store
  /\ UNCHANGED <<users, reg>>

\* SELECT ... FROM teams WHERE id = $1 AND archived_at IS NULL, the 404 and the
\* admin's early return (teams.js 131-143).
GetTeamQuery(p) ==
  /\ proc[p].op = "getTeamById" /\ proc[p].pc = "team"
  /\ proc' = [proc EXCEPT ![p] =
                IF ~TeamIsActive(teams, @.teamId) THEN Done(@, "not_found")
                ELSE IF IsGlobalAdmin(@.actor) THEN Done(@, "ok")
                ELSE [@ EXCEPT !.pc = "member"]]
  /\ UNCHANGED store
  /\ UNCHANGED <<users, reg>>

\* The membership test without "AND removed_at IS NULL".
HasMembershipRow(tm, teamId, sub) ==
  \E i \in DOMAIN tm : tm[i].team_id = teamId /\ tm[i].user_id = sub

\* SELECT 1 FROM team_members ... removed_at IS NULL LIMIT 1 of getTeamById
\* (teams.js 145-154) and of listMembers (teams.js 247-255).
HasActiveMembership(tm, teamId, sub) == ActiveMemberRows(tm, teamId, sub) # {}

GetTeamMembership(p) ==
  /\ proc[p].op = "getTeamById" /\ proc[p].pc = "member"
  /\ proc' = [proc EXCEPT ![p] =
                IF HasActiveMembership(team_members, @.teamId, @.actor.sub)
                THEN Done(@, "ok") ELSE Done(@, "forbidden")]
  /\ UNCHANGED store
  /\ UNCHANGED <<users, reg>>

\* listMembers up to its first statement (teams.js 236-246).
CallListMembers(p, teamId, user) ==
  /\ proc[p] = Idle
  /\ LET req == Request("listMembers", user, teamId, NoValue, NoValue, NoName,
                        NoValue, NoAssignment)
     IN proc' = [proc EXCEPT ![p] =
                   IF teamId = NoTeam THEN Done(req, "validation")
                   ELSE IF IsGlobalAdmin(user) THEN [req EXCEPT !.pc = "read"]
                   ELSE [req EXCEPT !.pc = "member"]]
  /\ UNCHANGED store
  /\ UNCHANGED <<users, reg>>

ListMembersMembership(p) ==
  /\ proc[p].op = "listMembers" /\ proc[p].pc = "member"
  /\ proc' = [proc EXCEPT ![p] =
                IF HasActiveMembership(team_members, @.teamId, @.actor.sub)
                THEN [@ EXCEPT !.pc = "read"] ELSE Done(@, "forbidden")]
  /\ UNCHANGED store
  /\ UNCHANGED <<users, reg>>

\* The rows of listMembers' SELECT (teams.js 258-266), in created_at order:
\* active rows of the team whose user has a users row (JOIN users).
MemberRows(tm, teamId) ==
  SelectSeq(tm, LAMBDA r : r.team_id = teamId /\ ~r.removed /\ r.user_id \in Users)

ListMembersRead(p) ==
  /\ proc[p].op = "listMembers" /\ proc[p].pc = "read"
  /\ proc' = [proc EXCEPT ![p] = Done(@, "ok")]
  /\ UNCHANGED store
  /\ UNCHANGED <<users, reg>>

\* ---------------------------------------------------- team lifecycle writes
\* updateTeam up to its first statement (teams.js 158-171).
CallUpdateTeam(p, teamId, name, description, user) ==
  /\ proc[p] = Idle
  /\ LET req == Request("updateTeam", user, teamId, NoValue, NoValue, name,
                        description, NoAssignment)
     IN proc' = [proc EXCEPT ![p] =
                   IF teamId = NoTeam THEN Done(req, "validation")
                   ELSE Authorize(req, IF IsGlobalAdmin(user) THEN "yes" ELSE "no")]
  /\ UNCHANGED store
  /\ UNCHANGED <<users, reg>>

\* The row left when the description is applied only if it is truthy
\* (if (description)), so that an empty string is not.
UpdatedTeamRowTruthy(row, name, description) ==
  [row EXCEPT !.name = IF NameIsValid(name) THEN Trim(name) ELSE @,
              !.description = IF IsString(description) /\ Truthy(description)
                              THEN description ELSE @]

\* The row UPDATE teams SET <fields> leaves (teams.js 173-184): a name that is
\* a string trimming to 2 characters or more, a description that is a string.
UpdatedTeamRow(row, name, description) ==
  [row EXCEPT !.name = IF NameIsValid(name) THEN Trim(name) ELSE @,
              !.description = IF IsString(description) THEN description ELSE @]

\* updateTeam's UPDATE without "AND archived_at IS NULL".
WriteUpdateTeamUnfiltered(p) ==
  /\ proc[p].op = "updateTeam" /\ proc[p].pc = "write"
  /\ LET req == proc[p]
     IN IF ~NameIsValid(req.name) /\ ~IsString(req.description)
        THEN /\ proc' = [proc EXCEPT ![p] = Done(@, "validation")]
             /\ UNCHANGED teams
        ELSE IF req.teamId \notin DOMAIN teams
        THEN /\ proc' = [proc EXCEPT ![p] = Done(@, "not_found")]
             /\ UNCHANGED teams
        ELSE /\ teams' = [teams EXCEPT ![req.teamId] =
                            UpdatedTeamRow(@, req.name, req.description)]
             /\ proc' = [proc EXCEPT ![p] = Done(@, "ok")]
  /\ UNCHANGED <<team_members, role_assignments, roles>>
  /\ UNCHANGED <<users, reg>>

\* The field checks and the UPDATE of updateTeam (teams.js 173-200).
WriteUpdateTeam(p) ==
  /\ proc[p].op = "updateTeam" /\ proc[p].pc = "write"
  /\ LET req == proc[p]
     IN IF ~NameIsValid(req.name) /\ ~IsString(req.description)
        THEN /\ proc' = [proc EXCEPT ![p] = Done(@, "validation")]
             /\ UNCHANGED teams
        ELSE IF ~TeamIsActive(teams, req.teamId)
        THEN /\ proc' = [proc EXCEPT ![p] = Done(@, "not_found")]
             /\ UNCHANGED teams
        ELSE /\ teams' = [teams EXCEPT ![req.teamId] =
                            UpdatedTeamRow(@, req.name, req.description)]
             /\ proc' = [proc EXCEPT ![p] = Done(@, "ok")]
  /\ UNCHANGED <<team_members, role_assignments, roles>>
  /\ UNCHANGED <<users, reg>>

\* archiveTeam up to its first statement (teams.js 204-217).
CallArchiveTeam(p, teamId, user) ==
  /\ proc[p] = Idle
  /\ LET req == Request("archiveTeam", user, teamId, NoValue, NoValue, NoName,
                        NoValue, NoAssignment)
     IN proc' = [proc EXCEPT ![p] =
                   IF teamId = NoTeam THEN Done(req, "validation")
                   ELSE Authorize(req, IF IsGlobalAdmin(user) THEN "yes" ELSE "no")]
  /\ UNCHANGED store
  /\ UNCHANGED <<users, reg>>

\* archiveTeam's UPDATE without "AND archived_at IS NULL".
WriteArchiveTeamAgain(p) ==
  /\ proc[p].op = "archiveTeam" /\ proc[p].pc = "write"
  /\ IF proc[p].teamId \notin DOMAIN teams
     THEN /\ proc' = [proc EXCEPT ![p] = Done(@, "not_found")]
          /\ UNCHANGED teams
     ELSE /\ teams' = [teams EXCEPT ![proc[p].teamId].archived = TRUE]
          /\ proc' = [proc EXCEPT ![p] = Done(@, "ok")]
  /\ UNCHANGED <<team_members, role_assignments, roles>>
  /\ UNCHANGED <<users, reg>>

\* UPDATE teams SET archived_at = NOW() WHERE id = $1 AND archived_at IS NULL
\* (teams.js 219-230).
WriteArchiveTeam(p) ==
  /\ proc[p].op = "archiveTeam" /\ proc[p].pc = "write"
  /\ IF ~TeamIsActive(teams, proc[p].teamId)
     THEN /\ proc' = [proc EXCEPT ![p] = Done(@, "not_found")]
          /\ UNCHANGED teams
     ELSE /\ teams' = [teams EXCEPT ![proc[p].teamId].archived = TRUE]
          /\ proc' = [proc EXCEPT ![p] = Done(@, "ok")]
  /\ UNCHANGED <<team_members, role_assignments, roles>>
  /\ UNCHANGED <<users, reg>>

\* ------------------------------------------------- membership mutations
\* (role || 'member').toLowerCase() of addMember (teams.js 277).
RequestedRole(role) == ToLowerCase(IF Truthy(role) THEN role ELSE "member")

\* A role argument whose toLowerCase call throws: truthy and not a string.
RoleThrows(role) == Truthy(role) /\ ~IsString(role)

\* addMember up to its first statement (teams.js 270-289).
CallAddMember(p, teamId, userId, role, actor) ==
  /\ proc[p] = Idle
  /\ LET req == Request("addMember", actor, teamId, userId, role, NoName,
                        NoValue, NoAssignment)
     IN proc' = [proc EXCEPT ![p] =
                   IF teamId = NoTeam \/ ~Truthy(userId) THEN Done(req, "validation")
                   ELSE IF RoleThrows(role) THEN Done(req, "type_error")
                   ELSE IF RequestedRole(role) \notin AllowedRoles
                   THEN Done(req, "validation")
                   ELSE Authorize(req, IsGlobalAdminUnguarded(actor))]
  /\ UNCHANGED store
  /\ UNCHANGED <<users, reg>>

\* addMember's statement as a plain INSERT, with no ON CONFLICT clause: an
\* existing row of the pair makes it fail.
WriteAddMemberPlainInsert(p) ==
  /\ proc[p].op = "addMember" /\ proc[p].pc = "write"
  /\ LET req == proc[p]
         err == InsertMemberError(team_members, teams, req.teamId, req.userId)
     IN IF err # "none"
        THEN /\ proc' = [proc EXCEPT ![p] = Done(@, err)]
             /\ UNCHANGED team_members
        ELSE /\ team_members' =
                  Append(team_members,
                         [team_id |-> req.teamId, user_id |-> req.userId,
                          role |-> RequestedRole(req.role), removed |-> FALSE])
             /\ proc' = [proc EXCEPT ![p] = Done(@, "ok")]
  /\ UNCHANGED <<teams, role_assignments, roles>>
  /\ UNCHANGED <<users, reg>>

\* INSERT INTO team_members ... ON CONFLICT (team_id, user_id) DO UPDATE ...
\* (teams.js 291-299).  A conflicting row exists, so its keys are valid; a new
\* row needs both foreign keys.
WriteAddMember(p) ==
  /\ proc[p].op = "addMember" /\ proc[p].pc = "write"
  /\ LET req == proc[p]
     IN IF /\ ~MemberKeyExists(team_members, req.teamId, req.userId)
           /\ ~ForeignKeysHold(teams, req.teamId, req.userId)
        THEN /\ proc' = [proc EXCEPT ![p] = Done(@, "fk_violation")]
             /\ UNCHANGED team_members
        ELSE /\ team_members' = UpsertMember(team_members, req.teamId, req.userId,
                                             RequestedRole(req.role))
             /\ proc' = [proc EXCEPT ![p] = Done(@, "ok")]
  /\ UNCHANGED <<teams, role_assignments, roles>>
  /\ UNCHANGED <<users, reg>>

\* removeMember up to its first statement (teams.js 303-316).
CallRemoveMember(p, teamId, userId, actor) ==
  /\ proc[p] = Idle
  /\ LET req == Request("removeMember", actor, teamId, userId, NoValue, NoName,
                        NoValue, NoAssignment)
     IN proc' = [proc EXCEPT ![p] =
                   IF teamId = NoTeam \/ ~Truthy(userId) THEN Done(req, "validation")
                   ELSE Authorize(req, IsGlobalAdminUnguarded(actor))]
  /\ UNCHANGED store
  /\ UNCHANGED <<users, reg>>

\* UPDATE team_members SET removed_at = NOW() ... (teams.js 318-330).
WriteRemoveMember(p) ==
  /\ proc[p].op = "removeMember" /\ proc[p].pc = "write"
  /\ LET req == proc[p]
     IN IF ActiveMemberRows(team_members, req.teamId, req.userId) = {}
        THEN /\ proc' = [proc EXCEPT ![p] = Done(@, "not_found")]
             /\ UNCHANGED team_members
        ELSE /\ team_members' = SoftDeleteMember(team_members, req.teamId,
                                                 req.userId)
             /\ proc' = [proc EXCEPT ![p] = Done(@, "ok")]
  /\ UNCHANGED <<teams, role_assignments, roles>>
  /\ UNCHANGED <<users, reg>>

\* changeMemberRole up to its first statement (teams.js 334-353).
CallChangeMemberRole(p, teamId, userId, role, actor) ==
  /\ proc[p] = Idle
  /\ LET req == Request("changeMemberRole", actor, teamId, userId, role, NoName,
                        NoValue, NoAssignment)
     IN proc' = [proc EXCEPT ![p] =
                   IF teamId = NoTeam \/ ~Truthy(userId) \/ ~Truthy(role)
                   THEN Done(req, "validation")
                   ELSE IF RoleThrows(role) THEN Done(req, "type_error")
                   ELSE IF ToLowerCase(role) \notin AllowedRoles
                   THEN Done(req, "validation")
                   ELSE Authorize(req, IsGlobalAdminUnguarded(actor))]
  /\ UNCHANGED store
  /\ UNCHANGED <<users, reg>>

\* UPDATE team_members SET role = $3 ... AND removed_at IS NULL (teams.js
\* 355-362): no row updated sends the handler on to its INSERT.
ChangeRoleUpdate(p) ==
  /\ proc[p].op = "changeMemberRole" /\ proc[p].pc = "write"
  /\ LET req == proc[p]
     IN IF ActiveMemberRows(team_members, req.teamId, req.userId) = {}
        THEN /\ proc' = [proc EXCEPT ![p].pc = "insert"]
             /\ UNCHANGED team_members
        ELSE /\ team_members' = UpdateMemberRole(team_members, req.teamId,
                                                 req.userId, ToLowerCase(req.role))
             /\ proc' = [proc EXCEPT ![p] = Done(@, "ok")]
  /\ UNCHANGED <<teams, role_assignments, roles>>
  /\ UNCHANGED <<users, reg>>

\* INSERT INTO team_members (team_id, user_id, role) VALUES ... (teams.js
\* 364-370): a plain insert, with no ON CONFLICT clause.
ChangeRoleInsert(p) ==
  /\ proc[p].op = "changeMemberRole" /\ proc[p].pc = "insert"
  /\ LET req == proc[p]
         err == InsertMemberError(team_members, teams, req.teamId, req.userId)
     IN IF err # "none"
        THEN /\ proc' = [proc EXCEPT ![p] = Done(@, err)]
             /\ UNCHANGED team_members
        ELSE /\ team_members' =
                  Append(team_members,
                         [team_id |-> req.teamId, user_id |-> req.userId,
                          role |-> ToLowerCase(req.role), removed |-> FALSE])
             /\ proc' = [proc EXCEPT ![p] = Done(@, "ok")]
  /\ UNCHANGED <<teams, role_assignments, roles>>
  /\ UNCHANGED <<users, reg>>

\* ------------------------------------------------------------------- roles
\* listRoles (teams.js 378-382): SELECT ... FROM roles ORDER BY name.
ListedRoles == roles

CallListRoles(p, user) ==
  /\ proc[p] = Idle
  /\ proc' = [proc EXCEPT ![p] =
                Done(Request("listRoles", user, NoTeam, NoValue, NoValue, NoName,
                             NoValue, NoAssignment), "ok")]
  /\ UNCHANGED store
  /\ UNCHANGED <<users, reg>>

\* The requests that will still insert a role_assignments row.
OpenAssignments == {q \in DOMAIN proc : proc[q].op = "assignRole" /\
                      proc[q].pc \in {"q1", "q2", "write", "insert"}}

\* assignRole up to its first statement (teams.js 385-410).  Without a team id
\* the assignment is global and only a global admin may make it.
CallAssignRole(p, teamId, userId, roleName, actor) ==
  /\ proc[p] = Idle
  /\ LET req == Request("assignRole", actor, teamId, userId, roleName, NoName,
                        NoValue, NoAssignment)
         adm == IsGlobalAdminUnguarded(actor)
         rec == IF ~Truthy(userId) \/ ~Truthy(roleName) THEN Done(req, "validation")
                ELSE IF RoleThrows(roleName) THEN Done(req, "type_error")
                ELSE IF ToLowerCase(roleName) \notin AllowedRoles
                THEN Done(req, "validation")
                ELSE IF teamId # NoTeam THEN Authorize(req, adm)
                ELSE IF adm = "throws" THEN Done(req, "type_error")
                ELSE IF adm = "yes" THEN [req EXCEPT !.pc = "write"]
                ELSE Done(req, "forbidden")
     IN /\ rec.pc # "done" =>
             Len(role_assignments) + Cardinality(OpenAssignments) < MaxAssignments
        /\ proc' = [proc EXCEPT ![p] = rec]
  /\ UNCHANGED store
  /\ UNCHANGED <<users, reg>>

\* INSERT INTO roles (name) VALUES ($1) ON CONFLICT (name) DO NOTHING.
AssignEnsureRole(p) ==
  /\ proc[p].op = "assignRole" /\ proc[p].pc = "write"
  /\ roles' = roles \cup {ToLowerCase(proc[p].role)}
  /\ proc' = [proc EXCEPT ![p].pc = "insert"]
  /\ UNCHANGED <<teams, team_members, role_assignments>>
  /\ UNCHANGED <<users, reg>>

\* INSERT INTO role_assignments (user_id, team_id, role_name) (teams.js
\* 415-421): user_id and a non-null team_id are foreign keys.
AssignInsert(p) ==
  /\ proc[p].op = "assignRole" /\ proc[p].pc = "insert"
  /\ LET req == proc[p]
     IN IF req.userId \notin Users \/
           (req.teamId # NoTeam /\ req.teamId \notin DOMAIN teams)
        THEN /\ proc' = [proc EXCEPT ![p] = Done(@, "fk_violation")]
             /\ UNCHANGED role_assignments
        ELSE /\ role_assignments' =
                  Append(role_assignments,
                         [user_id |-> req.userId, team_id |-> req.teamId,
                          role_name |-> ToLowerCase(req.role), revoked |-> FALSE])
             /\ proc' = [proc EXCEPT ![p] =
                           Done([@ EXCEPT !.assignmentId = Len(role_assignments) + 1],
                                "ok")]
  /\ UNCHANGED <<teams, team_members, roles>>
  /\ UNCHANGED <<users, reg>>

\* revokeRole up to its first statement (teams.js 425-431).
CallRevokeRole(p, assignmentId, actor) ==
  /\ proc[p] = Idle
  /\ LET req == Request("revokeRole", actor, NoTeam, NoValue, NoValue, NoName,
                        NoValue, assignmentId)
     IN proc' = [proc EXCEPT ![p] =
                   IF assignmentId = NoAssignment THEN Done(req, "validation")
                   ELSE [req EXCEPT !.pc = "load"]]
  /\ UNCHANGED store
  /\ UNCHANGED <<users, reg>>

\* SELECT ... FROM role_assignments WHERE id = $1 and the checks up to the
\* next statement (teams.js 434-462); the assignment's team scopes the check.
RevokeLoad(p) ==
  /\ proc[p].op = "revokeRole" /\ proc[p].pc = "load"
  /\ LET req == proc[p]
         adm == IsGlobalAdminUnguarded(req.actor)
     IN proc' = [proc EXCEPT ![p] =
                   IF req.assignmentId \notin DOMAIN role_assignments
                   THEN Done(req, "not_found")
                   ELSE IF role_assignments[req.assignmentId].revoked
                   THEN Done(req, "validation")
                   ELSE IF role_assignments[req.assignmentId].team_id # NoTeam
                   THEN Authorize([req EXCEPT !.teamId =
                                     role_assignments[req.assignmentId].team_id], adm)
                   ELSE IF adm = "throws" THEN Done(req, "type_error")
                   ELSE IF adm = "yes" THEN [req EXCEPT !.pc = "write"]
                   ELSE Done(req, "forbidden")]
  /\ UNCHANGED store
  /\ UNCHANGED <<users, reg>>

\* UPDATE role_assignments SET revoked_at = NOW() WHERE id = $1 (teams.js
\* 464-469).
RevokeWrite(p) ==
  /\ proc[p].op = "revokeRole" /\ proc[p].pc = "write"
  /\ role_assignments' = [role_assignments EXCEPT ![proc[p].assignmentId].revoked = TRUE]
  /\ proc' = [proc EXCEPT ![p] = Done(@, "ok")]
  /\ UNCHANGED <<teams, team_members, roles>>
  /\ UNCHANGED <<users, reg>>

\* ------------------------------------------------------------ grantAdmin
\* grantAdmin up to BEGIN (controllers/bootstrap.js 27-40): the environment
\* flag, then the body.
CallGrantAdmin(p, userId, email, allowed) ==
  /\ proc[p] = Idle
  /\ LET req == [Request("grantAdmin", NoActor, NoTeam, userId, NoValue, NoName,
                         NoValue, NoAssignment) EXCEPT !.email = email]
     IN proc' = [proc EXCEPT ![p] =
                   IF ~allowed THEN Done(req, "forbidden")
                   ELSE IF ~Truthy(userId) /\ email = NoName
                   THEN Done(req, "validation")
                   ELSE [req EXCEPT !.pc = "write"]]
  /\ UNCHANGED store
  /\ UNCHANGED <<users, reg>>

\* The users rows 'SELECT id FROM users WHERE lower(email) = lower($1) AND
\* deleted_at IS NULL' matches.
UsersByEmail(email) ==
  {i \in DOMAIN users : LowerChars(users[i].email) = LowerChars(email)}

\* The target of grantAdmin: the given id, or else an id the email resolves
\* to (LIMIT 1), or none.
GrantTargets(req) ==
  IF Truthy(req.userId) THEN {req.userId}
  ELSE IF UsersByEmail(req.email) = {} THEN {NoValue}
  ELSE {users[i].id : i \in UsersByEmail(req.email)}

\* The transaction of grantAdmin (controllers/bootstrap.js 40-74): INSERT
\* INTO roles ... ON CONFLICT DO NOTHING, UPDATE users SET role = 'admin',
\* COMMIT; a target that is not found throws 404 and the ROLLBACK undoes the
\* insert.  The transaction's writes show at COMMIT, in one step.
GrantAdminTransaction(p) ==
  /\ proc[p].op = "grantAdmin" /\ proc[p].pc = "write"
  /\ \E target \in GrantTargets(proc[p]) :
       IF \E i \in DOMAIN users : users[i].id = target
       THEN /\ roles' = roles \cup {"admin"}
            /\ users' = [i \in DOMAIN users |->
                           IF users[i].id = target
                           THEN [users[i] EXCEPT !.role = "admin"]
                           ELSE users[i]]
            /\ proc' = [proc EXCEPT ![p] = Done(@, "ok")]
       ELSE /\ proc' = [proc EXCEPT ![p] = Done(@, "not_found")]
            /\ UNCHANGED <<roles, users>>
  /\ UNCHANGED <<teams, team_members, role_assignments, reg>>

\* ----------------------------------------------------------- registration
\* An idle registration request.
RegIdle ==
  [pc |-> "idle", name |-> NoName, email |-> NoName, password |-> NoValue,
   res |-> "none"]

\* /^[^@\s]+@[^@\s]+\.[^@\s]+$/.test(email) on a string email: no white
\* space, exactly one "@" with something before it, and after it a "." with
\* something on both sides.
EmailIsValid(email) ==
  /\ email # NoName
  /\ \A i \in DOMAIN email : ~IsSpace(email[i])
  /\ \E a \in DOMAIN email :
       /\ email[a] = "@"
       /\ a > 1
       /\ \A j \in DOMAIN email : email[j] = "@" => j = a
       /\ \E d \in (a + 2)..(Len(email) - 1) : email[d] = "."

\* password && typeof password === 'string' && password.length >= 8
PasswordIsValid(password) == IsString(password) /\ Len(password) >= 8

\* email.trim().toLowerCase()
NormalizedEmail(email) == LowerChars(Trim(email))

\* registerUser up to its first statement (services/auth.js 13-31).
CallRegisterUser(r, name, email, password) ==
  /\ reg[r] = RegIdle
  /\ reg' = [reg EXCEPT ![r] =
               [pc |-> IF NameIsValid(name) /\ EmailIsValid(email)
                          /\ PasswordIsValid(password)
                       THEN "check" ELSE "done",
                name |-> name, email |-> email, password |-> password,
                res |-> IF NameIsValid(name) /\ EmailIsValid(email)
                           /\ PasswordIsValid(password)
                        THEN "pending" ELSE "validation"]]
  /\ UNCHANGED <<store, proc, users>>

\* SELECT id FROM users WHERE email = $1 AND deleted_at IS NULL LIMIT 1
\* (services/auth.js 34-42); email is CITEXT, compared without case.
RegisterCheck(r) ==
  /\ reg[r].pc = "check"
  /\ reg' = [reg EXCEPT ![r] =
               IF \E i \in DOMAIN users :
                    /\ LowerChars(users[i].email) =
                         LowerChars(NormalizedEmail(reg[r].email))
                    /\ ~users[i].deleted
               THEN [@ EXCEPT !.pc = "done", !.res = "conflict"]
               ELSE [@ EXCEPT !.pc = "hash"]]
  /\ UNCHANGED <<store, proc, users>>

\* await bcrypt.hash(password, SALT_ROUNDS) (services/auth.js 44).
RegisterHash(r) ==
  /\ reg[r].pc = "hash"
  /\ reg' = [reg EXCEPT ![r].pc = "insert"]
  /\ UNCHANGED <<store, proc, users>>

\* users_email_key UNIQUE (email): a row, soft-deleted or not, holds the
\* email, compared without case.
EmailKeyExists(email) ==
  \E i \in DOMAIN users : LowerChars(users[i].email) = LowerChars(email)

\* INSERT INTO users (name, email, password_hash) ... RETURNING (services/
\* auth.js 45-55).  A unique violation carries no status.
RegisterInsert(r) ==
  /\ reg[r].pc = "insert"
  /\ IF EmailKeyExists(NormalizedEmail(reg[r].email))
     THEN /\ reg' = [reg EXCEPT ![r] =
                       [@ EXCEPT !.pc = "done", !.res = "unique_violation"]]
          /\ UNCHANGED users
     ELSE /\ users' = Append(users,
                             [id |-> NewUserId(Len(users) + 1),
                              name |-> Trim(reg[r].name),
                              email |-> NormalizedEmail(reg[r].email),
                              role |-> "user", deleted |-> FALSE])
          /\ reg' = [reg EXCEPT ![r] = [@ EXCEPT !.pc = "done", !.res = "created"]]
  /\ UNCHANGED <<store, proc>>

\* The response of the register endpoint is sent.
RegisterRespond(r) ==
  /\ reg[r].pc = "done"
  /\ reg' = [reg EXCEPT ![r] = RegIdle]
  /\ UNCHANGED <<store, proc, users>>

\* ----------------------------------------------------------- specifications
\* The roles bootstrap_roles.sql seeds.
SeededRoles == {"admin", "manager", "member"}

\* The identities requests arrive with.
Admin == Actor("u1", "Admin")
Plain == Actor("u2", "user")
NoRoleUser == Actor("u2", NoValue)
BadRoleUser == Actor("u2", NotAString)
AdminGhost == Actor(GhostUser, "admin")

Actors == {NoActor, Admin, Plain, NoRoleUser, BadRoleUser}

\* Team ids requests name: none, and every id the table may come to hold.
TeamIds == 0..MaxTeams
RealTeamIds == 1..MaxTeams

\* Team names requests carry: " QA ", "Ops", " A " and none.
NameInputs == {<<" ", "Q", "A", " ">>, <<"O", "p", "s">>, <<" ", "A", " ">>, NoName}

DescriptionInputs == {NoValue, ""}

\* Role arguments: none, valid ones in lower and mixed case, an unknown one.
RoleInputs == {NoValue, "member", "Manager", "admin", "Owner"}
ValidRoleInputs == {"member", "Manager", "admin"}

\* Membership requests: every valid combination, and each invalid argument
\* (a missing id, an unknown user, an unknown role, a role that is a number)
\* with an admin and with a plain user.
MemberTargets ==
  (RealTeamIds \X Users \X Actors)
    \cup ({NoTeam} \X {"u2"} \X {Admin, Plain})
    \cup (RealTeamIds \X {NoValue, GhostUser} \X {Admin, Plain})

MemberRoleRequests ==
  (RealTeamIds \X Users \X (ValidRoleInputs \cup {NoValue}) \X Actors)
    \cup ({NoTeam} \X {"u2"} \X {"member"} \X {Admin, Plain})
    \cup (RealTeamIds \X {NoValue, GhostUser} \X {"member"} \X {Admin, Plain})
    \cup (RealTeamIds \X {"u2"} \X {"Owner", NotAString} \X {Admin, Plain})

\* Requests of the concurrent specification: one admin and one plain user
\* acting on one target user.
ConcRoleRequests == RealTeamIds \X {"u2"} \X {"member", "Manager"} \X {Admin, Plain}
ConcTargets == RealTeamIds \X {"u2"} \X {Admin, Plain}

\* Requests of the role-assignment specification.
AssignRequests ==
  (TeamIds \X {"u2"} \X {"member", "Manager"} \X {Admin, Plain})
    \cup (RealTeamIds \X {GhostUser, NoValue} \X {"Manager"} \X {Admin})
    \cup (RealTeamIds \X {"u2"} \X {"Owner", NoValue} \X {Admin})
AssignmentIds == 0..MaxAssignments

\* The request slots; the sequential specifications use the first only.
Procs == 1..NumConcProcs
SeqProcs == {1}

\* The users table before any registration: the admin u1 and the user u2.
InitialUsers ==
  <<[id |-> "u1", name |-> <<"R", "o">>, email |-> <<"r", "@", "x", ".", "y">>,
     role |-> "admin", deleted |-> FALSE],
    [id |-> "u2", name |-> <<"B", "o">>, email |-> <<"b", "@", "x", ".", "y">>,
     role |-> "user", deleted |-> FALSE]>>

\* Registration bodies: names "Al" and " A ", passwords of 12 and 5
\* characters, and the e-mails a@x.y, A@x.y, " a@x.y", b@x.y (taken by u2),
\* B@x.y, "ax.y" and none.
RegNames == {<<"A", "l">>, <<" ", "A", " ">>}
RegPasswords == {"Password123!", "short"}
RegEmails ==
  {<<"a", "@", "x", ".", "y">>, <<"A", "@", "x", ".", "y">>,
   <<" ", "a", "@", "x", ".", "y">>, <<"b", "@", "x", ".", "y">>,
   <<"B", "@", "x", ".", "y">>, <<"a", "x", ".", "y">>, NoName}

\* Bodies of grantAdmin with the environment flag: a user id, an e-mail, an
\* unknown id, nothing, and a user id while the flag is off.
GrantRequests ==
  {<<"u2", NoName, TRUE>>, <<NoValue, <<"B", "@", "x", ".", "y">>, TRUE>>,
   <<GhostUser, NoName, TRUE>>, <<NoValue, NoName, TRUE>>,
   <<"u2", NoName, FALSE>>}

Init ==
  /\ teams = <<>>
  /\ team_members = <<>>
  /\ role_assignments = <<>>
  /\ roles = SeededRoles
  /\ proc = [p \in Procs |-> Idle]
  /\ users = InitialUsers
  /\ reg = [r \in Procs |-> RegIdle]

\* The statements of the createTeam transaction.
TxStep(p) ==
  \/ TxBegin(p)
  \/ TxInsertTeam(p)
  \/ TxInsertMember(p)
  \/ TxCommit(p)
  \/ TxRollback(p)

\* The statements of the membership mutations, and the response.
MemberStep(p) ==
  \/ AuthMemberQuery(p)
  \/ AuthAssignmentQuery(p)
  \/ WriteAddMember(p)
  \/ WriteRemoveMember(p)
  \/ ChangeRoleUpdate(p)
  \/ ChangeRoleInsert(p)
  \/ Respond(p)

\* The statements of the team reads and writes.
TeamStep(p) ==
  \/ GetTeamQuery(p)
  \/ GetTeamMembership(p)
  \/ ListMembersMembership(p)
  \/ ListMembersRead(p)
  \/ WriteUpdateTeam(p)
  \/ WriteArchiveTeam(p)

\* The statements of assignRole, revokeRole and grantAdmin.
RoleStep(p) ==
  \/ AssignEnsureRole(p)
  \/ AssignInsert(p)
  \/ RevokeLoad(p)
  \/ RevokeWrite(p)
  \/ GrantAdminTransaction(p)

\* Requests of the team and membership operations arriving.
Call(p) ==
  \/ \E n \in NameInputs, d \in DescriptionInputs, a \in Actors \cup {AdminGhost} :
       Len(teams) < MaxSeqTeams /\ CallCreateTeam(p, n, d, a)
  \/ \E a \in Actors : CallListTeams(p, a)
  \/ \E t \in TeamIds, a \in Actors : CallGetTeam(p, t, a)
  \/ \E t \in TeamIds, a \in Actors : CallListMembers(p, t, a)
  \/ \E t \in TeamIds, n \in NameInputs, d \in DescriptionInputs, a \in Actors :
       CallUpdateTeam(p, t, n, d, a)
  \/ \E t \in TeamIds, a \in Actors : CallArchiveTeam(p, t, a)
  \/ \E r \in MemberRoleRequests : CallAddMember(p, r[1], r[2], r[3], r[4])
  \/ \E r \in MemberTargets : CallRemoveMember(p, r[1], r[2], r[3])
  \/ \E r \in MemberRoleRequests : CallChangeMemberRole(p, r[1], r[2], r[3], r[4])

\* One request at a time over the team and membership operations.
Next == \E p \in SeqProcs : Call(p) \/ TxStep(p) \/ MemberStep(p) \/ TeamStep(p)

Spec == Init /\ [][Next]_vars

\* Requests of the concurrent specification arriving.
ConcCall(p) ==
  \/ CallCreateTeam(p, <<" ", "Q", "A", " ">>, NoValue, Admin)
  \/ \E r \in ConcRoleRequests : CallAddMember(p, r[1], r[2], r[3], r[4])
  \/ \E r \in ConcTargets : CallRemoveMember(p, r[1], r[2], r[3])
  \/ \E r \in ConcRoleRequests : CallChangeMemberRole(p, r[1], r[2], r[3], r[4])

\* Concurrent requests of createTeam and the membership mutations, their
\* statements interleaved.
NextConc == \E p \in Procs : ConcCall(p) \/ TxStep(p) \/ MemberStep(p)

SpecConc == Init /\ [][NextConc]_vars

\* Requests of the role-assignment specification arriving.
RolesCall(p) ==
  \/ CallCreateTeam(p, <<" ", "Q", "A", " ">>, NoValue, Admin)
  \/ \E r \in ConcRoleRequests : CallAddMember(p, r[1], r[2], r[3], r[4])
  \/ \E r \in ConcTargets : CallRemoveMember(p, r[1], r[2], r[3])
  \/ \E r \in ConcRoleRequests : CallChangeMemberRole(p, r[1], r[2], r[3], r[4])
  \/ \E r \in AssignRequests : CallAssignRole(p, r[1], r[2], r[3], r[4])
  \/ \E i \in AssignmentIds, a \in {Admin, Plain, NoActor} : CallRevokeRole(p, i, a)
  \/ \E a \in {Admin, NoActor} : CallListRoles(p, a)
  \/ \E g \in GrantRequests : CallGrantAdmin(p, g[1], g[2], g[3])

\* One request at a time over memberships and role assignments.
NextRoles == \E p \in SeqProcs : RolesCall(p) \/ TxStep(p) \/ MemberStep(p) \/ RoleStep(p)

SpecRoles == Init /\ [][NextRoles]_vars

\* The statements of registerUser, and the response.
RegisterStep(r) ==
  \/ RegisterCheck(r)
  \/ RegisterHash(r)
  \/ RegisterInsert(r)
  \/ RegisterRespond(r)

\* Concurrent requests of the register endpoint, their statements interleaved.
NextRegister ==
  \E r \in Procs :
    \/ \E n \in RegNames, e \in RegEmails, w \in RegPasswords :
         CallRegisterUser(r, n, e, w)
    \/ RegisterStep(r)

SpecRegister == Init /\ [][NextRegister]_vars

\* ------------------------------------------------------ properties: words
\* The vocabulary of the properties below, stated on the tables themselves.

\* The rows of team_members for (t, u) that are not soft-deleted.
ActiveRowsOf(tm, t, u) ==
  {i \in DOMAIN tm : tm[i].team_id = t /\ tm[i].user_id = u /\ ~tm[i].removed}

\* u has an active membership row in t whose role is manager or admin.
HasManagerMembership(t, u) ==
  \E i \in ActiveRowsOf(team_members, t, u) :
    team_members[i].role \in {"manager", "admin"}

\* The active (not revoked) role assignments of u in t.
ActiveAssignmentsOf(t, u) ==
  {i \in DOMAIN role_assignments :
     /\ role_assignments[i].team_id = t
     /\ role_assignments[i].user_id = u
     /\ ~role_assignments[i].revoked}

\* An actor whose global role equals "admin" case-insensitively.
RoleIsAdmin(a) == a.present /\ a.role \in {"admin", "Admin", "ADMIN"}

\* The operations that change a team or its memberships.
MutatingOps ==
  {"updateTeam", "archiveTeam", "addMember", "removeMember", "changeMemberRole"}

\* Request slot p has just finished: this step sends its handler to "done".
Finishes(p) == proc[p].pc # "done" /\ proc'[p].pc = "done"

\* ------------------------------------------------------------------- C1
\* C1: in every state reachable by any interleaving of createTeam, addMember,
\* removeMember and changeMemberRole there is at most one active membership
\* row for each (team, user) pair.
AtMostOneActiveMembership ==
  \A i, j \in DOMAIN team_members :
    (/\ team_members[i].team_id = team_members[j].team_id
     /\ team_members[i].user_id = team_members[j].user_id
     /\ ~team_members[i].removed
     /\ ~team_members[j].removed) => i = j

\* Two requests raced to give the same pair a row: changeMemberRole's INSERT
\* lost to a concurrent insert, and the pair has its one active row.
RacedInsertKeptOneRow ==
  \E p \in Procs :
    /\ proc[p].op = "changeMemberRole"
    /\ proc[p].res = "unique_violation"
    /\ Cardinality(ActiveRowsOf(team_members, proc[p].teamId, proc[p].userId)) = 1

\* ------------------------------------------------------------------- C2
\* C2 as stated: changeMemberRole with a valid role by an actor who can manage
\* the team, reaching its INSERT because the pair has no active row (never
\* added, or soft-deleted), succeeds and leaves the user active at the
\* requested role.
ChangeRoleWithoutActiveRowSucceeds ==
  [][\A p \in SeqProcs :
       (/\ proc[p].op = "changeMemberRole"
        /\ proc[p].pc = "insert"
        /\ Finishes(p)
        /\ proc[p].teamId \in DOMAIN teams
        /\ proc[p].userId \in Users
        /\ ActiveRowsOf(team_members, proc[p].teamId, proc[p].userId) = {})
       => (/\ proc'[p].res = "ok"
           /\ \E i \in ActiveRowsOf(team_members', proc[p].teamId, proc[p].userId) :
                team_members'[i].role = ToLowerCase(proc[p].role))]_vars

ArchivedTeamIsNotFound ==
  [][/\ \A a \in Actors : \A t \in ListedTeams(a) : ~teams[t].archived
     /\ \A p \in SeqProcs :
          (/\ Finishes(p)
           /\ proc'[p].op \in MutatingOps \cup {"getTeamById", "listMembers"}
           /\ proc'[p].teamId \in DOMAIN teams
           /\ teams[proc'[p].teamId].archived)
          => (/\ proc'[p].res # "ok"
              /\ teams' = teams
              /\ team_members' = team_members)]_vars

\* ------------------------------------------------------------------- C5
\* The arguments of a finished mutating request are valid apart from who
\* sent it: an active team, a user of the users table, a role of the three
\* tiers (addMember may omit it), a field that updateTeam can apply.
ArgumentsValid(req) ==
  /\ req.teamId \in DOMAIN teams
  /\ ~teams[req.teamId].archived
  /\ req.op \in {"addMember", "removeMember", "changeMemberRole"}
       => req.userId \in Users
  /\ req.op = "addMember" => req.role \in {NoValue, "member", "Manager", "admin"}
  /\ req.op = "changeMemberRole" => req.role \in {"member", "Manager", "admin"}
  /\ req.op = "updateTeam"
       => \/ (req.name # NoName /\ Len(Trim(req.name)) >= 2)
          \/ req.description = ""

\* The actor holds authority over team t: an active manager or admin
\* membership, or an active manager or admin role assignment.
HoldsTeamAuthority(a, t) ==
  \/ HasManagerMembership(t, a.sub)
  \/ \E i \in ActiveAssignmentsOf(t, a.sub) :
       role_assignments[i].role_name \in {"manager", "admin"}

\* C5 as stated: update, archive, addMember, removeMember and
\* changeMemberRole with otherwise valid arguments, called by an actor who is
\* neither a global admin nor holds authority over the team, fail with
\* Forbidden and change no team row and no membership row.
UnauthorizedMutationIsForbidden ==
  [][\A p \in SeqProcs :
       (/\ Finishes(p)
        /\ proc'[p].op \in MutatingOps
        /\ ArgumentsValid(proc'[p])
        /\ ~RoleIsAdmin(proc'[p].actor)
        /\ ~HoldsTeamAuthority(proc'[p].actor, proc'[p].teamId))
       => (/\ proc'[p].res = "forbidden"
           /\ teams' = teams
           /\ team_members' = team_members)]_vars

\* ------------------------------------------------------------------- C6
\* C6: a finished update, archive, addMember, removeMember or
\* changeMemberRole of an actor whose global role is "admin" in any letter
\* case never failed with Forbidden, whatever the actor's own membership.
AdminIsNeverForbidden ==
  \A p \in SeqProcs :
    (/\ proc[p].pc = "done"
     /\ proc[p].op \in MutatingOps
     /\ RoleIsAdmin(proc[p].actor))
    => proc[p].res # "forbidden"

\* An admin whose own membership of the team is removed added a member.
RemovedAdminAddedMember ==
  \E p \in SeqProcs :
    /\ proc[p].pc = "done"
    /\ proc[p].op = "addMember"
    /\ proc[p].actor.role = "Admin"
    /\ proc[p].res = "ok"
    /\ \E i \in DOMAIN team_members :
         /\ team_members[i].team_id = proc[p].teamId
         /\ team_members[i].user_id = proc[p].actor.sub
         /\ team_members[i].removed

\* ------------------------------------------------------------------- C7
\* C7 as stated: createTeam by any actor whose global role is not "admin",
\* an absent actor included, fails with Forbidden.
NonAdminCreateIsForbidden ==
  \A p \in SeqProcs :
    (/\ proc[p].pc = "done"
     /\ proc[p].op = "createTeam"
     /\ ~RoleIsAdmin(proc[p].actor))
    => proc[p].res = "forbidden"

\* C7, amended: createTeam by a present actor whose global role is not "admin"
\* fails with Forbidden, and by an absent actor with Unauthorized (401); either
\* way it fails before its first statement and inserts no team row and no
\* membership row.
NonAdminCreateIsRefused ==
  [][\A p \in SeqProcs :
       (/\ proc[p] = Idle
        /\ proc'[p].op = "createTeam"
        /\ ~RoleIsAdmin(proc'[p].actor))
       => (/\ proc'[p].pc = "done"
           /\ proc'[p].res = IF proc'[p].actor.present THEN "forbidden"
                             ELSE "unauthorized"
           /\ teams' = teams
           /\ team_members' = team_members)]_vars

\* A present actor whose role is not admin was refused with Forbidden (403).
PlainUserCreateRefused ==
  \E p \in SeqProcs :
    /\ proc[p].pc = "done"
    /\ proc[p].op = "createTeam"
    /\ proc[p].actor.present
    /\ proc[p].actor.role = "user"
    /\ proc[p].res = "forbidden"
    /\ StatusOf(proc[p].res) = 403

\* ------------------------------------------------------------------- C8
\* C8: createTeam is atomic.  No step of a createTeam request changes the
\* teams or team_members table except the one that makes it succeed, and that
\* step adds the team row and the creator's active manager membership of it
\* together.
CreateTeamIsAtomic ==
  [][\A p \in SeqProcs :
       (proc[p].op = "createTeam" /\ proc'[p] # proc[p])
       => IF proc'[p].res = "ok"
          THEN /\ Len(teams') = Len(teams) + 1
               /\ SubSeq(teams', 1, Len(teams)) = teams
               /\ ~teams'[Len(teams')].archived
               /\ proc'[p].teamId = Len(teams')
               /\ \E i \in ActiveRowsOf(team_members', Len(teams'),
                                         proc[p].actor.sub) :
                    team_members'[i].role = "manager"
          ELSE teams' = teams /\ team_members' = team_members]_vars

\* The creator's membership insert failed inside the transaction and the
\* store holds no team.
FailedCreateLeftNoTeam ==
  \E p \in SeqProcs :
    /\ proc[p].pc = "done"
    /\ proc[p].op = "createTeam"
    /\ proc[p].err = "fk_violation"
    /\ teams = <<>>
    /\ team_members = <<>>

\* ------------------------------------------------------------------- C9
\* C9 as stated: when a statement of the createTeam transaction failed, the
\* error that reaches the caller is that failure, also when the ROLLBACK
\* failed too.
OriginalErrorReachesCaller ==
  \A p \in SeqProcs :
    (/\ proc[p].pc = "done"
     /\ proc[p].op = "createTeam"
     /\ proc[p].err # "none")
    => proc[p].res = proc[p].err

\* ------------------------------------------------------------------ C10
\* C10: right after createTeam succeeded, isTeamManagerOrAdmin(creator, new
\* team) is true and listMembers of the new team holds the creator exactly
\* once, with role manager.
CreatorIsManagerAfterCreate ==
  \A p \in SeqProcs :
    (/\ proc[p].pc = "done"
     /\ proc[p].op = "createTeam"
     /\ proc[p].res = "ok")
    => LET listed == MemberRows(team_members, proc[p].teamId)
           own == {i \in DOMAIN listed : listed[i].user_id = proc[p].actor.sub}
       IN /\ isTeamManagerOrAdmin(proc[p].actor.sub, proc[p].teamId) = {TRUE}
          /\ Cardinality(own) = 1
          /\ \A i \in own : listed[i].role = "manager"

\* createTeam succeeded and the new team is in the store.
CreateTeamSucceeded ==
  \E p \in SeqProcs :
    /\ proc[p].pc = "done"
    /\ proc[p].op = "createTeam"
    /\ proc[p].res = "ok"
    /\ proc[p].teamId \in DOMAIN teams

\* ------------------------------------------------------------------ C11
\* The tier a role argument names: its lower-case form, the lowest tier when
\* the argument is omitted.
TierOf(role) ==
  CASE role = "<undefined>" -> "member"
    [] role \in {"member", "MEMBER"} -> "member"
    [] role \in {"manager", "Manager"} -> "manager"
    [] role \in {"admin", "Admin", "ADMIN"} -> "admin"
    [] OTHER -> role

\* (t, u) has a row in tm, soft-deleted or not.
HasRow(tm, t, u) ==
  \E i \in DOMAIN tm : tm[i].team_id = t /\ tm[i].user_id = u

\* C11: addMember by an authorised actor for a user of the users table
\* succeeds and leaves exactly one active row for the pair, at the requested
\* role, which listMembers shows once; when the pair already has a row, a
\* soft-deleted one included, that row is reactivated and no row is added.
AddMemberReactivatesRow ==
  [][\A p \in SeqProcs :
       (/\ proc[p].op = "addMember"
        /\ proc[p].pc = "write"
        /\ proc[p].teamId \in DOMAIN teams
        /\ proc[p].userId \in Users)
       => LET t == proc[p].teamId
              u == proc[p].userId
              listed == MemberRows(team_members', t)
          IN /\ proc'[p].pc = "done"
             /\ proc'[p].res = "ok"
             /\ Cardinality(ActiveRowsOf(team_members', t, u)) = 1
             /\ \A i \in ActiveRowsOf(team_members', t, u) :
                  team_members'[i].role = TierOf(proc[p].role)
             /\ Cardinality({i \in DOMAIN listed : listed[i].user_id = u}) = 1
             /\ HasRow(team_members, t, u)
                  => Len(team_members') = Len(team_members)]_vars

\* The creator, inserted as manager, was added again as member: the one row of
\* the pair is active at member tier.
CreatorReAddedAsMember ==
  \E p \in SeqProcs :
    /\ proc[p].pc = "done"
    /\ proc[p].op = "addMember"
    /\ proc[p].res = "ok"
    /\ proc[p].userId = "u1"
    /\ proc[p].role = "member"
    /\ Len(team_members) = 1
    /\ team_members[1] = [team_id |-> proc[p].teamId, user_id |-> "u1",
                          role |-> "member", removed |-> FALSE]

\* ------------------------------------------------------------------ C12
\* C12: two addMember calls for one pair in flight together, for a user of
\* the users table in an existing team.  Whichever of them passes its
\* authorisation and writes, before or after the other, returns its membership
\* record and leaves exactly one active row for the pair, at the role it
\* requested; so once both have written, both succeeded and the pair's one
\* active row has the role of the call that wrote last.
ConcurrentAddMemberBothSucceed ==
  [][\A p, q \in Procs :
       (/\ p # q
        /\ proc[p].op = "addMember" /\ proc[q].op = "addMember"
        /\ proc[p].teamId = proc[q].teamId
        /\ proc[p].userId = proc[q].userId
        /\ proc[p].pc = "write"
        /\ proc'[p] # proc[p]
        /\ proc[p].teamId \in DOMAIN teams
        /\ proc[p].userId \in Users)
       => (/\ proc'[p].pc = "done"
           /\ proc'[p].res = "ok"
           /\ Cardinality(ActiveRowsOf(team_members', proc[p].teamId,
                                       proc[p].userId)) = 1
           /\ \A i \in ActiveRowsOf(team_members', proc[p].teamId,
                                    proc[p].userId) :
                team_members'[i].role = TierOf(proc[p].role))]_vars

\* Two addMember calls for one pair, asking for different roles, have both
\* returned a record.
TwoAddMembersReturned ==
  \E p, q \in Procs :
    /\ p # q
    /\ proc[p].op = "addMember" /\ proc[q].op = "addMember"
    /\ proc[p].res = "ok" /\ proc[q].res = "ok"
    /\ proc[p].teamId = proc[q].teamId
    /\ proc[p].userId = proc[q].userId
    /\ TierOf(proc[p].role) # TierOf(proc[q].role)
    /\ Cardinality(ActiveRowsOf(team_members, proc[p].teamId, proc[p].userId)) = 1

\* ------------------------------------------------------------------ C13
\* C13: changeMemberRole by an authorised actor, for a user of the users table
\* in an existing team where the pair has no membership row at all, inserts an
\* active row at the requested tier instead of failing, and listMembers then
\* shows the user exactly once.
ChangeRoleInsertsFirstRow ==
  [][\A p \in SeqProcs :
       (/\ proc[p].op = "changeMemberRole"
        /\ proc[p].pc \in {"write", "insert"}
        /\ proc'[p].pc = "done"
        /\ proc[p].teamId \in DOMAIN teams
        /\ proc[p].userId \in Users
        /\ ~HasRow(team_members, proc[p].teamId, proc[p].userId))
       => LET t == proc[p].teamId
              u == proc[p].userId
              listed == MemberRows(team_members', t)
          IN /\ proc[p].pc = "insert"
             /\ proc'[p].res = "ok"
             /\ Len(team_members') = Len(team_members) + 1
             /\ team_members'[Len(team_members')] =
                  [team_id |-> t, user_id |-> u, role |-> TierOf(proc[p].role),
                   removed |-> FALSE]
             /\ Cardinality({i \in DOMAIN listed : listed[i].user_id = u}) = 1]_vars

\* A user never added before was made manager by changeMemberRole.
NewManagerInserted ==
  \E p \in SeqProcs :
    /\ proc[p].pc = "done"
    /\ proc[p].op = "changeMemberRole"
    /\ proc[p].res = "ok"
    /\ proc[p].userId = "u2"
    /\ proc[p].role = "Manager"
    /\ Len(team_members) = 2
    /\ team_members[2] = [team_id |-> proc[p].teamId, user_id |-> "u2",
                          role |-> "manager", removed |-> FALSE]

\* ------------------------------------------------------------------ C14
\* C14: getTeamById of a team that is not archived succeeds for a global
\* admin; of an archived team it fails with NotFound (404) for every caller,
\* admin, member, non-member or absent.
GetTeamNotFoundFirst ==
  \A p \in SeqProcs :
    (/\ proc[p].pc = "done"
     /\ proc[p].op = "getTeamById"
     /\ proc[p].teamId \in DOMAIN teams)
    => IF teams[proc[p].teamId].archived
       THEN proc[p].res = "not_found" /\ StatusOf(proc[p].res) = 404
       ELSE RoleIsAdmin(proc[p].actor) => proc[p].res = "ok"

\* A caller who is neither admin nor member asked for an archived team and
\* got NotFound.
StrangerGotNotFound ==
  \E p \in SeqProcs :
    /\ proc[p].pc = "done"
    /\ proc[p].op = "getTeamById"
    /\ proc[p].teamId \in DOMAIN teams
    /\ teams[proc[p].teamId].archived
    /\ ~RoleIsAdmin(proc[p].actor)
    /\ ActiveRowsOf(team_members, proc[p].teamId, proc[p].actor.sub) = {}
    /\ proc[p].res = "not_found"

\* ------------------------------------------------------------------ C15
\* C15: on a team that is not archived, getTeamById and listMembers called by
\* an actor who is not a global admin succeed if the actor has an active
\* membership row of any tier in the team, and fail with Forbidden otherwise.
MemberReadsNeedActiveMembership ==
  \A p \in SeqProcs :
    (/\ proc[p].pc = "done"
     /\ proc[p].op \in {"getTeamById", "listMembers"}
     /\ proc[p].teamId \in DOMAIN teams
     /\ ~teams[proc[p].teamId].archived
     /\ ~RoleIsAdmin(proc[p].actor))
    => proc[p].res =
         IF ActiveRowsOf(team_members, proc[p].teamId, proc[p].actor.sub) # {}
         THEN "ok" ELSE "forbidden"

\* A user whose membership was removed asked for the team and was refused.
RemovedMemberRefused ==
  \E p \in SeqProcs :
    /\ proc[p].pc = "done"
    /\ proc[p].op = "getTeamById"
    /\ proc[p].teamId \in DOMAIN teams
    /\ ~teams[proc[p].teamId].archived
    /\ ~RoleIsAdmin(proc[p].actor)
    /\ \E i \in DOMAIN team_members :
         /\ team_members[i].team_id = proc[p].teamId
         /\ team_members[i].user_id = proc[p].actor.sub
         /\ team_members[i].removed
    /\ proc[p].res = "forbidden"

\* ------------------------------------------------------------------ C16
\* C16: listTeamsForUser never fails; for a global admin it returns exactly
\* the teams that are not archived, for any other actor exactly the teams that
\* are not archived and in which the actor has an active membership row, each
\* team once, and nothing for an actor with no membership.
ListReturnsVisibleTeamsOnce ==
  /\ \A p \in SeqProcs :
       (proc[p].pc = "done" /\ proc[p].op = "listTeamsForUser")
       => proc[p].res = "ok"
  /\ \A a \in Actors :
       LET rows == ListedTeamRows(a)
           visible == {t \in DOMAIN teams :
                         /\ ~teams[t].archived
                         /\ \/ RoleIsAdmin(a)
                            \/ ActiveRowsOf(team_members, t, a.sub) # {}}
       IN /\ {rows[i] : i \in DOMAIN rows} = visible
          /\ Len(rows) = Cardinality(visible)

\* A plain member listed the one team they belong to.
MemberListedOwnTeam ==
  \E p \in SeqProcs :
    /\ proc[p].pc = "done"
    /\ proc[p].op = "listTeamsForUser"
    /\ proc[p].res = "ok"
    /\ ~RoleIsAdmin(proc[p].actor)
    /\ ListedTeamRows(proc[p].actor) = <<1>>

\* ------------------------------------------------------------------ C17
\* C17: archiveTeam by an actor who can manage the team archives a team that
\* is not archived and returns it; on a team that is archived already it fails
\* with NotFound and changes no team row.
SecondArchiveIsNotFound ==
  [][\A p \in SeqProcs :
       (/\ proc[p].op = "archiveTeam"
        /\ proc[p].pc = "write"
        /\ proc[p].teamId \in DOMAIN teams)
       => /\ proc'[p].pc = "done"
          /\ team_members' = team_members
          /\ IF teams[proc[p].teamId].archived
             THEN proc'[p].res = "not_found" /\ teams' = teams
             ELSE /\ proc'[p].res = "ok"
                  /\ teams' = [teams EXCEPT ![proc[p].teamId].archived = TRUE]]_vars

\* An admin archived an archived team again and got NotFound.
ArchivedTwice ==
  \E p \in SeqProcs :
    /\ proc[p].pc = "done"
    /\ proc[p].op = "archiveTeam"
    /\ RoleIsAdmin(proc[p].actor)
    /\ proc[p].teamId \in DOMAIN teams
    /\ teams[proc[p].teamId].archived
    /\ proc[p].res = "not_found"

\* ------------------------------------------------------------------ C18
\* C18: archiving is permanent.  No step clears the archived mark of a team,
\* and updateTeam on an archived team by an authorised actor with a field it
\* can apply fails with NotFound and changes no team row.
ArchivingIsPermanent ==
  [][/\ \A t \in DOMAIN teams :
          teams[t].archived => (t \in DOMAIN teams' /\ teams'[t].archived)
     /\ \A p \in SeqProcs :
          (/\ proc[p].op = "updateTeam"
           /\ proc[p].pc = "write"
           /\ proc[p].teamId \in DOMAIN teams
           /\ teams[proc[p].teamId].archived
           /\ \/ (proc[p].name # NoName /\ Len(Trim(proc[p].name)) >= 2)
              \/ proc[p].description = "")
          => (/\ proc'[p].pc = "done"
              /\ proc'[p].res = "not_found"
              /\ teams' = teams)]_vars

\* An authorised update with a valid name met an archived team.
UpdateMetArchivedTeam ==
  \E p \in SeqProcs :
    /\ proc[p].pc = "done"
    /\ proc[p].op = "updateTeam"
    /\ proc[p].name = <<"O", "p", "s">>
    /\ proc[p].teamId \in DOMAIN teams
    /\ teams[proc[p].teamId].archived
    /\ teams[proc[p].teamId].name # <<"O", "p", "s">>
    /\ proc[p].res = "not_found"

\* ------------------------------------------------------------------ C19
\* C19: removeMember by an actor who can manage the team fails with NotFound
\* and changes no row when the pair has no active membership (never added, or
\* removed already); on an active membership it soft-deletes that row and no
\* other, so that the pair has no active membership afterwards.
RemoveMemberSoftDeletesOnce ==
  [][\A p \in SeqProcs :
       (proc[p].op = "removeMember" /\ proc[p].pc = "write")
       => LET t == proc[p].teamId
              u == proc[p].userId
          IN /\ proc'[p].pc = "done"
             /\ teams' = teams
             /\ IF ActiveRowsOf(team_members, t, u) = {}
                THEN proc'[p].res = "not_found" /\ team_members' = team_members
                ELSE /\ proc'[p].res = "ok"
                     /\ Len(team_members') = Len(team_members)
                     /\ \A i \in DOMAIN team_members :
                          team_members'[i] =
                            IF i \in ActiveRowsOf(team_members, t, u)
                            THEN [team_members[i] EXCEPT !.removed = TRUE]
                            ELSE team_members[i]
                     /\ ActiveRowsOf(team_members', t, u) = {}]_vars

\* A second removeMember of a removed member failed with NotFound, while
\* another member of the team is still active.
RemovedTwice ==
  \E p \in SeqProcs :
    /\ proc[p].pc = "done"
    /\ proc[p].op = "removeMember"
    /\ proc[p].res = "not_found"
    /\ \E i \in DOMAIN team_members :
         /\ team_members[i].team_id = proc[p].teamId
         /\ team_members[i].user_id = proc[p].userId
         /\ team_members[i].removed
    /\ \E i \in DOMAIN team_members :
         /\ team_members[i].team_id = proc[p].teamId
         /\ team_members[i].user_id # proc[p].userId
         /\ ~team_members[i].removed

\* ------------------------------------------------------------------ C20
\* C20: in every reachable state each team's stored name has at least 2
\* characters and neither starts nor ends with white space: createTeam and
\* updateTeam store the trimmed name and refuse one that trims to less.
StoredNamesAreTrimmed ==
  \A t \in DOMAIN teams :
    /\ Len(teams[t].name) >= 2
    /\ teams[t].name[1] # " "
    /\ teams[t].name[Len(teams[t].name)] # " "

\* " QA " was stored as "QA".
PaddedNameStoredTrimmed ==
  \E p \in SeqProcs :
    /\ proc[p].pc = "done"
    /\ proc[p].op \in {"createTeam", "updateTeam"}
    /\ proc[p].res = "ok"
    /\ proc[p].name = <<" ", "Q", "A", " ">>
    /\ proc[p].teamId \in DOMAIN teams
    /\ teams[proc[p].teamId].name = <<"Q", "A">>

\* ------------------------------------------------------------------ C21
\* The role arguments that name one of the three tiers in some letter case.
TierNames ==
  {"member", "MEMBER", "manager", "Manager", "admin", "Admin", "ADMIN"}

\* C21 as stated: every membership row's role is one of member, manager and
\* admin in lower case, and an addMember or changeMemberRole whose role
\* argument is neither a tier name in some letter case nor (for addMember)
\* omitted is rejected with ValidationError and changes no row.
OtherRoleIsValidationError ==
  [][/\ \A i \in DOMAIN team_members' :
          team_members'[i].role \in {"member", "manager", "admin"}
     /\ \A p \in SeqProcs :
          (/\ Finishes(p)
           /\ proc'[p].op \in {"addMember", "changeMemberRole"}
           /\ proc'[p].role \notin TierNames
           /\ proc'[p].op = "addMember" => proc'[p].role # "<undefined>")
          => (/\ proc'[p].res = "validation"
              /\ store' = store)]_vars

\* ------------------------------------------------------------------ C22
\* C22 as stated: no team or membership operation of an actor whose role
\* field is absent or not a string ends in an unexpected error raised by the
\* global-admin check; the actor is a non-admin and the operation reaches
\* its normal outcome.  (The role argument is a string or omitted.)
MalformedActorRoleNeverThrows ==
  [][\A p \in SeqProcs :
       (/\ Finishes(p)
        /\ proc'[p].actor.present
        /\ proc'[p].actor.role \in {"<undefined>", "<number>"}
        /\ proc'[p].role # "<number>")
       => proc'[p].res # "type_error"]_vars

RegFinishes(r) == reg[r].pc # "done" /\ reg'[r].pc = "done"

\* A users row holds this e-mail, trimmed and lower-cased.
EmailInUse(email) ==
  \E i \in DOMAIN users : users[i].email = LowerChars(Trim(email))

\* C24 as stated: a registration with a valid body whose e-mail, trimmed and
\* lower-cased, is held by a users row fails with status 409 and adds no
\* row, and any other succeeds; so of the registrations for one e-mail, in
\* every interleaving, one succeeds and every other one fails with 409.
DuplicateEmailIsConflict ==
  [][\A r \in Procs :
       (RegFinishes(r) /\ reg'[r].res # "validation")
       => IF EmailInUse(reg'[r].email)
          THEN StatusOf(reg'[r].res) = 409 /\ users' = users
          ELSE /\ StatusOf(reg'[r].res) = 201
               /\ Len(users') = Len(users) + 1
               /\ users'[Len(users')].email = LowerChars(Trim(reg'[r].email))]_vars

\* ------------------------------------------------------------------ C25
\* The (team, user) pairs that have a row in tm, soft-deleted or not.
MemberPairs(tm) == {<<tm[i].team_id, tm[i].user_id>> : i \in DOMAIN tm}

\* C25: no operation hard-deletes a team row or a membership row: every step
\* keeps every team id and every (team, user) pair that has a row, and a
\* successful removeMember or archiveTeam leaves the row in place with its
\* soft-delete mark set.
NoHardDeletes ==
  [][/\ DOMAIN teams \subseteq DOMAIN teams'
     /\ MemberPairs(team_members) \subseteq MemberPairs(team_members')
     /\ \A p \in SeqProcs :
          (Finishes(p) /\ proc'[p].res = "ok")
          => /\ proc'[p].op = "removeMember"
                  => \E i \in DOMAIN team_members' :
                       /\ team_members'[i].team_id = proc'[p].teamId
                       /\ team_members'[i].user_id = proc'[p].userId
                       /\ team_members'[i].removed
             /\ proc'[p].op = "archiveTeam"
                  => /\ proc'[p].teamId \in DOMAIN teams'
                     /\ teams'[proc'[p].teamId].archived]_vars

\* A team was archived after its creator had been removed: both rows are
\* still in their tables.
ArchivedAfterRemoval ==
  \E p \in SeqProcs :
    /\ proc[p].pc = "done"
    /\ proc[p].op = "archiveTeam"
    /\ proc[p].res = "ok"
    /\ teams[proc[p].teamId].archived
    /\ \E i \in DOMAIN team_members :
         team_members[i].team_id = proc[p].teamId /\ team_members[i].removed

\* ------------------------------------------------------------------ C26
\* C26 as stated: a statement of addMember, removeMember or changeMemberRole
\* issued by a non-admin actor changes team_members only in a state in which
\* that actor holds authority over the team; a concurrent removeMember or
\* role change that strips the authority first keeps the write from taking
\* effect.
WriteNeedsAuthorityWhenApplied ==
  [][\A p \in Procs :
       (/\ proc[p].op \in {"addMember", "removeMember", "changeMemberRole"}
        /\ proc[p].pc \in {"write", "insert"}
        /\ proc'[p].pc # proc[p].pc
        /\ ~RoleIsAdmin(proc[p].actor)
        /\ team_members' # team_members)
       => HoldsTeamAuthority(proc[p].actor, proc[p].teamId)]_vars

\* ------------------------------------------------------------------ C27
\* C27 as stated: when two changeMemberRole calls for one (team, user) pair
\* that has no membership row are in flight together, both authorised and
\* past the UPDATE that found no row, each one's INSERT succeeds and leaves
\* exactly one active row for the pair, at a role one of the two requested.
ConcurrentChangeRoleBothSucceed ==
  [][\A p, q \in Procs :
       (/\ p # q
        /\ proc[p].op = "changeMemberRole" /\ proc[p].pc = "insert"
        /\ proc[q].op = "changeMemberRole" /\ proc[q].pc \in {"insert", "done"}
        /\ proc[q].res \in {"pending", "ok"}
        /\ proc[q].teamId = proc[p].teamId /\ proc[q].userId = proc[p].userId
        /\ proc[p].teamId \in DOMAIN teams
        /\ \A i \in DOMAIN team_members :
             (team_members[i].team_id = proc[p].teamId
                /\ team_members[i].user_id = proc[p].userId)
             => ~team_members[i].removed
        /\ Finishes(p))
       => /\ proc'[p].res = "ok"
          /\ Cardinality(ActiveRowsOf(team_members', proc[p].teamId,
                                      proc[p].userId)) = 1
          /\ \E i \in ActiveRowsOf(team_members', proc[p].teamId, proc[p].userId) :
               team_members'[i].role \in {TierOf(proc[p].role), TierOf(proc[q].role)}]_vars

\* ------------------------------------------------------------------ C28
\* C28 as stated: the team-authority decision is a function of the store:
\* for every user and team, isTeamManagerOrAdmin has one result in each
\* state, also when the user holds several active role assignments for the
\* team under different role names.
AuthorityDecisionIsDeterministic ==
  \A u \in Users, t \in RealTeamIds :
    Cardinality(isTeamManagerOrAdmin(u, t)) = 1

\* ------------------------------------------------------------------ C29
\* The length of a name without its leading and trailing spaces.
TrimmedLength(name) ==
  LET solid == {i \in DOMAIN name : name[i] # " "}
  IN IF solid = {} THEN 0
     ELSE (CHOOSE i \in solid : \A j \in solid : j <= i)
          - (CHOOSE i \in solid : \A j \in solid : i <= j) + 1

\* updateTeam can apply the name: a string that trims to 2 characters or more.
NameApplies(name) == name # <<"<undefined>">> /\ TrimmedLength(name) >= 2

\* C29: updateTeam by an authorised actor on an active team with a name it
\* cannot apply and a string description succeeds, stores the description
\* (the empty string included) and leaves the name as it was; it fails with
\* ValidationError, changing nothing, exactly when it can apply neither field.
UpdateAppliesDescriptionAlone ==
  [][\A p \in SeqProcs :
       (/\ Finishes(p)
        /\ proc[p].op = "updateTeam"
        /\ proc[p].pc = "write"
        /\ proc[p].teamId \in DOMAIN teams
        /\ ~teams[proc[p].teamId].archived)
       => LET t == proc[p].teamId
              d == proc[p].description
          IN /\ (~NameApplies(proc[p].name) /\ d \notin {"<undefined>", "<number>"})
                  => /\ proc'[p].res = "ok"
                     /\ teams'[t].description = d
                     /\ teams'[t].name = teams[t].name
             /\ proc'[p].res = "validation"
                  <=> (~NameApplies(proc[p].name) /\ d \in {"<undefined>", "<number>"})
             /\ proc'[p].res = "validation" => teams' = teams]_vars

\* An update with the name " A " and the description "" succeeded: the
\* description is now the empty string and the name is still "QA" or "Ops".
DescriptionClearedNameKept ==
  \E p \in SeqProcs :
    /\ proc[p].pc = "done"
    /\ proc[p].op = "updateTeam"
    /\ proc[p].res = "ok"
    /\ proc[p].name = <<" ", "A", " ">>
    /\ proc[p].description = ""
    /\ teams[proc[p].teamId].description = ""
    /\ Len(teams[proc[p].teamId].name) >= 2

\* ------------------------------------------------------------------ C30
\* C30 as stated: in every state each team that is not archived has at least
\* one active membership of manager or admin tier, whatever removeMember,
\* addMember and changeMemberRole calls have been made since its creation.
ActiveTeamHasManager ==
  \A t \in DOMAIN teams :
    ~teams[t].archived
      => \E i \in DOMAIN team_members :
           /\ team_members[i].team_id = t
           /\ ~team_members[i].removed
           /\ team_members[i].role \in {"manager", "admin"}

====
